---- MODULE Spec2Model ----
(***************************************************************************)
(* ADKbot: a Next.js chat front-end over CopilotKit.                       *)
(*                                                                         *)
(*   src/src/app/api/copilotkit/route.ts   the proxy route (POST)          *)
(*   src/unnamed/part_001                  the root layout (RootLayout)    *)
(*   src/unnamed/part_002                  the primary page  (Page, Chat)  *)
(*   src/unnamed/part_000                  the alternate page (Page, Chat) *)
(*                                                                         *)
(* The model covers the repository's own code.  The external libraries     *)
(* (@copilotkit/runtime, @copilotkit/react-core, @copilotkit/react-ui)     *)
(* are the environment: what handleRequest(req) produces is a free choice  *)
(* among responses and failures, and the chat widget submits a message to  *)
(* the runtimeUrl of a provider above it.                                  *)
(***************************************************************************)
EXTENDS Integers, Sequences, FiniteSets, TLC

VARIABLES
    env,             \* process.env.NEXT_PUBLIC_API_BASE_URL
    serviceAdapter,  \* route.ts: module-level const serviceAdapter
    runtime,         \* route.ts: module-level const runtime
    inv,             \* the invocations of POST, by slot
    page,            \* what the browser has mounted
    sent,            \* the messages the chat widget has submitted, in order
    delivered        \* indices of sent that have reached the proxy route

vars == <<env, serviceAdapter, runtime, inv, page, sent, delivered>>

----------------------------------------------------------------------------
(* Bounds *)

MaxInv == 2
MaxMessages == 2

Slots == 1..MaxInv

----------------------------------------------------------------------------
(* Environment values *)

\* process.env.X of a variable that is not set
Undefined == "undefined"

EnvValues == {Undefined, "https://a.onrender.com"}

\* What the external runtime's handleRequest can produce
Responses == {"response A", "response B"}
Errors == {"agent unreachable", "network timeout"}
Outcomes == [kind : {"response"}, value : Responses] \cup [kind : {"error"}, value : Errors]
NoOutcome == [kind |-> "none", value |-> ""]

\* Text a user can type into the chat box
TypedTexts == {"What is the CCN of Hoboken University Medical Center?"}

\* Callers of the route other than this repository's pages
ExternalRequests == [agent : {"my_agent", "other_agent"}, body : TypedTexts, origin : {"external"}]
NoRequest == [agent |-> "", body |-> "", origin |-> "none"]

----------------------------------------------------------------------------
(* route.ts *)

\* new ExperimentalEmptyAdapter()
NewServiceAdapter(e) == [obj |-> <<"serviceAdapter", 0>>]

\* Variant: the agent registered under another key
NewRuntime_otherKey(e) ==
    [obj    |-> <<"runtime", 0>>,
     agents |-> ("myAgent" :> [url |-> "https://adkbotbackend.onrender.com"])]

\* new CopilotRuntime({agents: {"my_agent": new HttpAgent({url: ...})}})
NewRuntime(e) ==
    [obj    |-> <<"runtime", 0>>,
     agents |-> ("my_agent" :> [url |-> "https://adkbotbackend.onrender.com"])]

\* The file's place under app/: the path the route is served at
RoutePath == "/api/copilotkit"

NoHandler == [obj |-> <<"none", 0>>, runtime |-> <<"none", 0>>,
              serviceAdapter |-> <<"none", 0>>, endpoint |-> ""]

\* Variant: a runtime constructed inside POST, one per invocation
POST_handler_ownRuntime(i) ==
    [obj            |-> <<"handler", i>>,
     runtime        |-> <<"runtime", i>>,
     serviceAdapter |-> serviceAdapter.obj,
     endpoint       |-> "/api/copilotkit"]

\* Variant: one handler built by the first invocation and kept for the rest
POST_handler_memoized(i) ==
    [obj            |-> <<"handler", 1>>,
     runtime        |-> runtime.obj,
     serviceAdapter |-> serviceAdapter.obj,
     endpoint       |-> "/api/copilotkit"]

\* copilotRuntimeNextJSAppRouterEndpoint({runtime, serviceAdapter, endpoint}):
\* the handler object the i-th invocation of POST builds (a fresh object,
\* named by the invocation that allocated it)
POST_handler(i) ==
    [obj            |-> <<"handler", i>>,
     runtime        |-> runtime.obj,
     serviceAdapter |-> serviceAdapter.obj,
     endpoint       |-> "/api/copilotkit"]

\* Variant: handleRequest called a second time with the same request
POST_calls_twice(h, req) ==
    <<[handler |-> h.obj, req |-> req], [handler |-> h.obj, req |-> req]>>

\* return handleRequest(req): the calls of handleRequest one invocation makes
\* before it first yields, each with the handler called and the argument passed
POST_calls(h, req) == <<[handler |-> h.obj, req |-> req]>>

\* Variant: the response rebuilt before it is returned
POST_settled_rebuilt(rec, o) ==
    [rec EXCEPT !.pc = "done",
                !.result = IF o.kind = "response"
                           THEN [kind |-> "response", value |-> "rebuilt response"]
                           ELSE o]

\* Variant: try/catch around handleRequest answering a failure with a 500
POST_settled_caught(rec, o) ==
    [rec EXCEPT !.pc = "done",
                !.result = IF o.kind = "error"
                           THEN [kind |-> "response", value |-> "500 Internal Server Error"]
                           ELSE o]

\* The invocation once the promise handleRequest returned has settled with
\* outcome o: POST is async and returns that promise, so POST's own promise
\* adopts its state, fulfilled or rejected
POST_settled(rec, o) == [rec EXCEPT !.pc = "done", !.result = o]

IdleInvocation ==
    [pc |-> "idle", req |-> NoRequest, handler |-> NoHandler, calls |-> <<>>,
     outcome |-> NoOutcome, result |-> NoOutcome]

\* export const POST = async (req) => {...}: the synchronous part, up to the
\* point where handleRequest(req) has been called and its promise is pending.
\* Slots are taken in order.
POST(i, req) ==
    /\ inv[i].pc = "idle"
    /\ \A j \in Slots : j < i => inv[j].pc # "idle"
    /\ LET h == POST_handler(i)
       IN  inv' = [inv EXCEPT ![i] = [pc |-> "awaiting", req |-> req, handler |-> h,
                                      calls |-> POST_calls(h, req),
                                      outcome |-> NoOutcome, result |-> NoOutcome]]
    /\ UNCHANGED <<env, serviceAdapter, runtime>>

\* The external runtime settles the promise of the pending handleRequest call
\* with some outcome o, and POST's promise, which was resolved with it, settles
\* in the same turn of the event loop
POST_settles(i) ==
    /\ inv[i].pc = "awaiting"
    /\ \E o \in Outcomes :
           inv' = [inv EXCEPT ![i] = POST_settled([inv[i] EXCEPT !.outcome = o], o)]
    /\ UNCHANGED <<env, serviceAdapter, runtime, page, sent, delivered>>

----------------------------------------------------------------------------
(* part_001: the root layout *)

\* Variant: the layout's provider pointed at another path
RootLayout_otherPath(e) == [runtimeUrl |-> "/api/copilot", agent |-> "my_agent"]

\* <CopilotKit runtimeUrl="/api/copilotkit" agent="my_agent">
RootLayout(e) == [runtimeUrl |-> "/api/copilotkit", agent |-> "my_agent"]

(* part_002: the primary page *)

\* Variant: the primary page reading its runtimeUrl from the environment
PrimaryPage_fromEnv(e) ==
    [runtimeUrl |-> e, showDevConsole |-> FALSE, agent |-> "my_agent"]

\* <CopilotKit runtimeUrl="/api/copilotkit" showDevConsole={false} agent="my_agent">
PrimaryPage(e) ==
    [runtimeUrl |-> "/api/copilotkit", showDevConsole |-> FALSE, agent |-> "my_agent"]

\* <CopilotChat labels=... suggestions=... /> inside the background container
PrimaryChat ==
    [background  |-> "var(--copilot-kit-background-color)",
     initial     |-> "Please enter a hospital name to find its CCN or a NPI to find the hospital type.",
     suggestions |-> << [title   |-> "Find CCN for Bayonne Medical Center",
                         message |-> "Find CCN for Bayonne Medical Center"],
                        [title   |-> "Find hospital type for 1104144641",
                         message |-> "Find hospital type for 1104144641"] >>]

(* part_000: the alternate page *)

\* <CopilotKit runtimeUrl={process.env.NEXT_PUBLIC_API_BASE_URL} showDevConsole={false} agent="my_agent">
AlternatePage(e) ==
    [runtimeUrl |-> e, showDevConsole |-> FALSE, agent |-> "my_agent"]

\* Variant: the two suggestions in the other order
AlternateChat_swapped ==
    [background  |-> "var(--copilot-kit-background-color)",
     initial     |-> "Please enter a hospital name to find its CCN or a NPI to find the hospital type.",
     suggestions |-> << [title   |-> "Find hospital type for 1104144641",
                         message |-> "Find hospital type for 1104144641"],
                        [title   |-> "Find CCN for Bayonne Medical Center",
                         message |-> "Find CCN for Bayonne Medical Center"] >>]

AlternateChat ==
    [background  |-> "var(--copilot-kit-background-color)",
     initial     |-> "Please enter a hospital name to find its CCN or a NPI to find the hospital type.",
     suggestions |-> << [title   |-> "Find CCN for Bayonne Medical Center",
                         message |-> "Find CCN for Bayonne Medical Center"],
                        [title   |-> "Find hospital type for 1104144641",
                         message |-> "Find hospital type for 1104144641"] >>]

Variants == {"primary", "alternate"}

Page(v, e) == IF v = "primary" THEN PrimaryPage(e) ELSE AlternatePage(e)
Chat(v) == IF v = "primary" THEN PrimaryChat ELSE AlternateChat

NotLoaded == [variant |-> "none"]

\* The provider whose configuration the chat widget uses
Provider == IF page.effective = "layout" THEN page.layout ELSE page.provider

\* The browser loads a page: RootLayout renders, the page renders inside it.
\* The page's provider is nested in the layout's; p is the one in effect.
LoadPage(v, p) ==
    /\ page.variant = "none"
    /\ page' = [variant |-> v, layout |-> RootLayout(env), provider |-> Page(v, env),
                effective |-> p, chat |-> Chat(v)]
    /\ UNCHANGED <<env, serviceAdapter, runtime, inv, sent, delivered>>

\* The chat widget submits a message to the provider's runtimeUrl, naming the
\* provider's agent; Chat renders again.
Submit(body) ==
    /\ page.variant # "none"
    /\ Len(sent) < MaxMessages
    /\ sent' = Append(sent, [url |-> Provider.runtimeUrl, agent |-> Provider.agent,
                             body |-> body, origin |-> page.variant])
    /\ page' = [page EXCEPT !.chat = Chat(page.variant)]
    /\ UNCHANGED <<env, serviceAdapter, runtime, inv, delivered>>

\* The user types a message and sends it
SubmitTyped(text) == Submit(text)

\* The suggestions on screen
Shown == IF page.variant = "none" THEN <<>> ELSE page.chat.suggestions

\* The user clicks the k-th suggestion shown
ClickSuggestion(k) ==
    /\ k \in 1..Len(Shown)
    /\ Submit(Shown[k].message)

\* A submitted message addressed to the route's path reaches POST
Deliver(i, k) ==
    /\ k \notin delivered
    /\ sent[k].url = RoutePath
    /\ POST(i, [agent |-> sent[k].agent, body |-> sent[k].body, origin |-> sent[k].origin])
    /\ delivered' = delivered \cup {k}
    /\ UNCHANGED <<page, sent>>

\* Another caller posts to the route
ExternalCall(i, r) ==
    /\ POST(i, r)
    /\ UNCHANGED <<page, sent, delivered>>

----------------------------------------------------------------------------

Init ==
    /\ env \in EnvValues
    /\ serviceAdapter = NewServiceAdapter(env)
    /\ runtime = NewRuntime(env)
    /\ inv = [i \in Slots |-> IdleInvocation]
    /\ page = NotLoaded
    /\ sent = <<>>
    /\ delivered = {}

Next ==
    \/ \E v \in Variants, p \in {"layout", "page"} : LoadPage(v, p)
    \/ \E t \in TypedTexts : SubmitTyped(t)
    \/ \E k \in 1..Len(Shown) : ClickSuggestion(k)
    \/ \E i \in Slots, k \in 1..Len(sent) : Deliver(i, k)
    \/ \E i \in Slots, r \in ExternalRequests : ExternalCall(i, r)
    \/ \E i \in Slots : POST_settles(i)

Spec == Init /\ [][Next]_vars

----------------------------------------------------------------------------
(* Properties *)

Started == {i \in Slots : inv[i].pc # "idle"}
Done == {i \in Slots : inv[i].pc = "done"}
Loaded == page.variant # "none"
Registered == DOMAIN runtime.agents
SuggestionA == "Find CCN for Bayonne Medical Center"
SuggestionB == "Find hospital type for 1104144641"

\* C1: every invocation of POST has passed the request it received, unchanged,
\* to handleRequest of the handler it built, exactly once: never zero times
\* and never more than once, whatever the call then produces.
C1_ForwardedExactlyOnce ==
    \A i \in Started :
        /\ Len(inv[i].calls) = 1
        /\ inv[i].calls[1].req = inv[i].req
        /\ inv[i].calls[1].handler = inv[i].handler.obj

C1_Witness ==
    \E i \in Done :
        /\ inv[i].req.origin = "primary"
        /\ inv[i].req.body = SuggestionA
        /\ Len(inv[i].calls) = 1

\* C2: the agent every provider of the repository names (root layout, primary
\* page, alternate page) is a key of the runtime's agent map, which has the
\* single key "my_agent"; so every message the pages submit, and every request
\* of theirs that reaches POST, names a registered agent.
C2_AgentRegistered ==
    /\ Registered = {"my_agent"}
    /\ Loaded => page.layout.agent \in Registered /\ page.provider.agent \in Registered
    /\ \A k \in 1..Len(sent) : sent[k].agent \in Registered
    /\ \A i \in Started : inv[i].req.origin \in Variants => inv[i].req.agent \in Registered
    /\ \A v \in Variants, e \in EnvValues : Page(v, e).agent = "my_agent"

C2_Witness ==
    /\ page.variant = "alternate"
    /\ page.provider.agent = "my_agent"
    /\ \E i \in Started : inv[i].req.origin = "alternate" /\ inv[i].req.agent \in Registered

\* C4: the value of NEXT_PUBLIC_API_BASE_URL decides nothing but the alternate
\* page's runtimeUrl: the runtime the route forwards with, the root layout's
\* provider and the primary page's provider are what they would be under any
\* other value of the variable, and so is the address of every message the
\* primary page submits.
C4_EnvOnlyMovesAlternate ==
    \A e \in EnvValues :
        /\ runtime = NewRuntime(e)
        /\ \A i \in Started : inv[i].handler.runtime = NewRuntime(e).obj
        /\ Loaded => page.layout = RootLayout(e)
        /\ page.variant = "primary" => page.provider = PrimaryPage(e)
        /\ \A k \in 1..Len(sent) :
               sent[k].origin = "primary" =>
                   sent[k].url \in {RootLayout(e).runtimeUrl, PrimaryPage(e).runtimeUrl}
        /\ page.variant = "alternate" =>
               page.provider = [AlternatePage(e) EXCEPT !.runtimeUrl = env]

C4_Witness ==
    /\ env = "https://a.onrender.com"
    /\ page.variant = "alternate"
    /\ page.effective = "page"
    /\ \E k \in 1..Len(sent) : sent[k].url = "https://a.onrender.com"
    /\ runtime.agents["my_agent"].url = "https://adkbotbackend.onrender.com"

\* C5: when the handleRequest call of an invocation produced a response, what
\* POST returned is exactly that response.
C5_ResponseVerbatim ==
    \A i \in Done :
        inv[i].outcome.kind = "response" => inv[i].result = inv[i].outcome

C5_Witness ==
    \E i \in Done :
        /\ inv[i].outcome = [kind |-> "response", value |-> "response B"]
        /\ inv[i].result = inv[i].outcome

\* C6: when the handleRequest call of an invocation failed, POST failed with
\* the same failure (not a response, not another failure), and handleRequest
\* was not called again for that request.
C6_FailurePropagates ==
    \A i \in Slots :
        inv[i].outcome.kind = "error" =>
            /\ Len(inv[i].calls) = 1
            /\ inv[i].pc = "done" => inv[i].result = inv[i].outcome

C6_Witness ==
    \E i \in Done :
        /\ inv[i].outcome = [kind |-> "error", value |-> "network timeout"]
        /\ inv[i].result = inv[i].outcome

\* C7: the suggestions on screen are exactly the two configured entries, in
\* the given order, each title equal to its message, on the primary and on the
\* alternate page, before and after any number of submitted messages.
C7_TwoSuggestionsInOrder ==
    Loaded =>
        /\ Len(Shown) = 2
        /\ Shown[1] = [title |-> SuggestionA, message |-> SuggestionA]
        /\ Shown[2] = [title |-> SuggestionB, message |-> SuggestionB]
        /\ \A k \in 1..Len(Shown) : Shown[k].title = Shown[k].message

C7_Witness ==
    /\ page.variant = "alternate"
    /\ Len(sent) >= 2
    /\ Len(Shown) = 2

\* C8: after any sequence of invocations, failed ones included, the runtime
\* is the one built at module load, its agent map holds the single entry
\* "my_agent" -> https://adkbotbackend.onrender.com, the service adapter is the
\* one built at module load, and every handler was built over these two.
C8_RegistrationFrozen ==
    /\ runtime = NewRuntime(env)
    /\ serviceAdapter = NewServiceAdapter(env)
    /\ DOMAIN runtime.agents = {"my_agent"}
    /\ runtime.agents["my_agent"] = [url |-> "https://adkbotbackend.onrender.com"]
    /\ \A i \in Started :
           /\ inv[i].handler.runtime = runtime.obj
           /\ inv[i].handler.runtime = NewRuntime(env).obj
           /\ inv[i].handler.serviceAdapter = serviceAdapter.obj

C8_Witness ==
    \E i, j \in Done :
        /\ inv[i].result.kind = "error"
        /\ inv[j].result.kind = "response"
        /\ inv[i].handler.runtime = runtime.obj
        /\ inv[j].handler.runtime = runtime.obj

\* C9: under any interleaving, each invocation has a handler of its own,
\* has forwarded its own request and nothing else, ends with the outcome of
\* its own handleRequest call, and its next step never waits for another
\* invocation.
C9_InvocationsIndependent ==
    /\ \A i, j \in Started : i # j => inv[i].handler.obj # inv[j].handler.obj
    /\ \A i \in Started : \A c \in 1..Len(inv[i].calls) :
           /\ inv[i].calls[c].req = inv[i].req
           /\ inv[i].calls[c].handler = inv[i].handler.obj
    /\ \A i \in Done : inv[i].result = inv[i].outcome
    /\ \A i \in Slots :
           inv[i].pc = "awaiting" => ENABLED POST_settles(i)

C9_Witness ==
    \E i, j \in Slots :
        /\ i # j
        /\ inv[i].pc = "awaiting"
        /\ inv[j].pc = "done"
        /\ j > i
        /\ inv[i].req # inv[j].req

\* C10: the runtimeUrl of the root layout's provider and of the primary
\* page's provider is the endpoint POST gives its handler and the path the
\* route is served at, so every message submitted from the primary page,
\* under either provider, is addressed to the proxy route and not to the
\* remote agent.
C10_PrimaryTargetsProxy ==
    /\ page.variant = "primary" =>
           /\ page.layout.runtimeUrl = RoutePath
           /\ page.provider.runtimeUrl = RoutePath
           /\ \A i \in Started :
                  /\ inv[i].handler.endpoint = page.layout.runtimeUrl
                  /\ inv[i].handler.endpoint = page.provider.runtimeUrl
    /\ \A k \in 1..Len(sent) :
           sent[k].origin = "primary" =>
               /\ sent[k].url = RoutePath
               /\ \A a \in Registered : sent[k].url # runtime.agents[a].url
               /\ \A i \in Started : sent[k].url = inv[i].handler.endpoint

C10_Witness ==
    /\ page.variant = "primary"
    /\ page.effective = "layout"
    /\ \E i \in Started : inv[i].req.origin = "primary" /\ inv[i].handler.endpoint = RoutePath
    /\ delivered # {}

====
